---- MODULE Spec2Model ----
(***************************************************************************)
(* Model of drivers/usb/gadget/android.c: the registry of function        *)
(* modules, the gate that binds them into the one configuration, the      *)
(* product-id selection and the runtime enable/disable of a function.     *)
(***************************************************************************)
EXTENDS Integers, Sequences, FiniteSets, TLC

\* Number of android_register_function calls explored.
MaxRegistrations == 3

NULL == "NULL"

USB_CLASS_PER_INTERFACE == 0
USB_CLASS_COMM == 2
USB_CLASS_WIRELESS_CONTROLLER == 224
EOPNOTSUPP == 95

VARIABLES
    dev,                            \* struct android_dev *_android_dev
    device_desc,                    \* static struct usb_device_descriptor device_desc
    cdev_desc,                      \* dev->cdev->desc
    _functions,                     \* list of registered android_usb_function (names)
    _registered_function_count,
    config_functions,               \* android_config_driver.functions
    CONFIG_USB_ANDROID_RNDIS,
    CONFIG_USB_ANDROID_RNDIS_WCEIS,
    start_disabled,                 \* names whose bind_config adds the function disabled
    bind_pc,                        \* position of android_bind: idle, added, done
    bind_passes,                    \* executions of bind_functions
    bind_trigger,                   \* which caller ran bind_functions
    count_at_attach,                \* _registered_function_count seen by android_bind_config
    call,                           \* the last handler call: arguments, events, result
    first_id,                       \* the first get_product_id call: enabled names, result
    reg_threads,                    \* concurrent android_register_function calls
    en_threads                      \* concurrent android_enable_function calls

vars == <<dev, device_desc, cdev_desc, _functions, _registered_function_count,
          config_functions, CONFIG_USB_ANDROID_RNDIS, CONFIG_USB_ANDROID_RNDIS_WCEIS,
          start_disabled, bind_pc, bind_passes, bind_trigger, count_at_attach, call,
          first_id, reg_threads, en_threads>>

threads == <<reg_threads, en_threads>>

(***************************************************************************)
(* Platform data handed to android_probe.                                 *)
(***************************************************************************)
ExampleProducts ==
    << [product_id |-> 4369, functions |-> <<"usb_mass_storage">>],
       [product_id |-> 8738, functions |-> <<"adb">>] >>

BoardProducts ==
    << [product_id |-> 3073, functions |-> <<"usb_mass_storage">>],
       [product_id |-> 3074, functions |-> <<"usb_mass_storage", "adb">>],
       [product_id |-> 3075, functions |-> <<"rndis">>],
       [product_id |-> 3076, functions |-> <<"rndis", "adb">>] >>

PlatformData ==
    { [functions |-> <<"usb_mass_storage", "adb">>,
       products |-> ExampleProducts, product_id |-> 1],
      [functions |-> <<"rndis", "usb_mass_storage", "adb">>,
       products |-> BoardProducts, product_id |-> 3073],
      [functions |-> <<"rndis", "mtp">>,
       products |-> <<>>, product_id |-> 20001] }

UnlistedModule == "acm"

Range(s) == { s[i] : i \in 1..Len(s) }

\* Modules that may call android_register_function on this platform.
ModuleNames == Range(dev.functions) \cup {UnlistedModule}

StartDisabledChoices == { {}, {"adb", "rndis"} }

\* C's ! and !! on an int.
Not(x) == IF x = 0 THEN 1 ELSE 0
NotNot(x) == IF x = 0 THEN 0 ELSE 1

\* __constant_cpu_to_le16 of an int.
cpu_to_le16(x) == x % 65536

(***************************************************************************)
(* The registry and the binding pass.                                      *)
(***************************************************************************)
RECURSIVE get_function_from(_, _, _)
get_function_from(list, name, i) ==
    IF i > Len(list) THEN 0
    ELSE IF list[i] = name THEN i
    ELSE get_function_from(list, name, i + 1)

\* Position in the registry of the first module called name; 0 when there is none.
get_function(list, name) == get_function_from(list, name, 1)

\* f->bind_config(dev->config): the module adds its usb_function to the configuration.
bind_config(name, disabled_names) ==
    [name |-> name, disabled |-> IF name \in disabled_names THEN 1 ELSE 0]

RECURSIVE bind_functions_from(_, _, _, _)
bind_functions_from(d, list, disabled_names, i) ==
    IF i > d.num_functions THEN <<>>
    ELSE LET name == d.functions[i]
             rest == bind_functions_from(d, list, disabled_names, i + 1)
         IN  IF get_function(list, name) # 0
             THEN <<bind_config(name, disabled_names)>> \o rest
             ELSE rest

\* A binding pass that gives up at the first expected name with no module.
RECURSIVE bind_functions_until_missing_from(_, _, _, _)
bind_functions_until_missing_from(d, list, disabled_names, i) ==
    IF i > d.num_functions THEN <<>>
    ELSE IF get_function(list, d.functions[i]) = 0 THEN <<>>
    ELSE <<bind_config(d.functions[i], disabled_names)>>
         \o bind_functions_until_missing_from(d, list, disabled_names, i + 1)

bind_functions_until_missing(d, list, disabled_names) ==
    bind_functions_until_missing_from(d, list, disabled_names, 1)

\* A binding pass that walks the registry instead of the expected-name list.
bind_functions_in_registry_order(d, list, disabled_names) ==
    LET listed == SelectSeq(list, LAMBDA n : n \in Range(d.functions))
    IN  [k \in 1..Len(listed) |-> bind_config(listed[k], disabled_names)]

\* The usb_functions the binding pass adds to the configuration, in call order.
bind_functions(d, list, disabled_names) == bind_functions_from(d, list, disabled_names, 1)

\* A gate that never binds at attach.
AttachGateNever(d, count) == FALSE

\* The test of android_bind_config.
AttachGate(d, count) == count = d.num_functions

\* The register gate without its dev->config test.
RegisterGateNoConfig(d, count) == count = d.num_functions

\* The test of android_register_function.
RegisterGate(d, count) == d.config # NULL /\ count = d.num_functions

(***************************************************************************)
(* Product-id selection.                                                   *)
(***************************************************************************)
product_has_function(p, f) ==
    IF \E i \in 1..Len(p.functions) : p.functions[i] = f.name THEN 1 ELSE 0

\* A match that forgets that unlisted functions must be disabled.
product_matches_listed_only(p, fs) ==
    IF \E k \in 1..Len(fs) :
           product_has_function(p, fs[k]) = 1 /\ NotNot(fs[k].disabled) = 1
    THEN 0 ELSE 1

product_matches_functions(p, fs) ==
    IF \E k \in 1..Len(fs) : product_has_function(p, fs[k]) = NotNot(fs[k].disabled)
    THEN 0 ELSE 1

RECURSIVE get_product_id_from(_, _, _)
get_product_id_from(d, fs, i) ==
    IF i > d.num_products THEN d.product_id
    ELSE IF product_matches_functions(d.products[i], fs) # 0
         THEN d.products[i].product_id
         ELSE get_product_id_from(d, fs, i + 1)

get_product_id(d, fs) ==
    IF d.has_products THEN get_product_id_from(d, fs, 1) ELSE d.product_id

\* Names of the functions whose disabled flag is clear.
EnabledNames(fs) == { fs[k].name : k \in { j \in 1..Len(fs) : fs[j].disabled = 0 } }

NoFirstId == [set |-> FALSE, enabled |-> {}, id |-> 0]

\* A caller of android_register_function: position and the count it read.
RegThread == [pc |-> "idle", tmp |-> 0]

\* A caller of android_enable_function: position, arguments, local product_id.
EnThread == [pc |-> "idle", f |-> 0, enable |-> 0, edge |-> FALSE, product_id |-> 0]

\* Descriptor fields remembered across a disable/enable pair of calls.
NoSnapshot == [set |-> FALSE, idProduct |-> 0, cdev_idProduct |-> 0, bDeviceClass |-> 0]

NoCall == [op |-> "none", f |-> 0, name |-> NULL, enable |-> 0, edge |-> FALSE,
           events |-> <<>>, product_id |-> 0, fault |-> FALSE,
           pre |-> NoSnapshot, toggle |-> NoSnapshot,
           handlers |-> <<>>, consulted |-> <<>>, ret |-> 0]

Init ==
    /\ \E pdata \in PlatformData :
         /\ dev = [cdev |-> NULL, config |-> NULL,
                   num_products |-> Len(pdata.products),
                   has_products |-> pdata.products # <<>>,
                   products |-> pdata.products,
                   num_functions |-> Len(pdata.functions),
                   functions |-> pdata.functions,
                   product_id |-> pdata.product_id]
         /\ device_desc = [idProduct |-> cpu_to_le16(pdata.product_id),
                           bDeviceClass |-> USB_CLASS_PER_INTERFACE]
    /\ cdev_desc = [idProduct |-> 0, bDeviceClass |-> 0]
    /\ _functions = <<>>
    /\ _registered_function_count = 0
    /\ config_functions = <<>>
    /\ CONFIG_USB_ANDROID_RNDIS \in BOOLEAN
    /\ CONFIG_USB_ANDROID_RNDIS_WCEIS \in BOOLEAN
    /\ (CONFIG_USB_ANDROID_RNDIS_WCEIS => CONFIG_USB_ANDROID_RNDIS)
    /\ (CONFIG_USB_ANDROID_RNDIS => "rndis" \in Range(dev.functions))
    /\ start_disabled \in StartDisabledChoices
    /\ bind_pc = "idle"
    /\ bind_passes = 0
    /\ bind_trigger = "none"
    /\ count_at_attach = -1
    /\ call = NoCall
    /\ first_id = NoFirstId
    /\ reg_threads = [t \in 1..dev.num_functions |-> RegThread]
    /\ en_threads = [t \in 1..2 |-> EnThread]

(***************************************************************************)
(* android_register_function                                               *)
(***************************************************************************)
android_register_function(name) ==
    /\ Len(_functions) < MaxRegistrations
    /\ LET list == Append(_functions, name)
           count == _registered_function_count + 1
       IN  /\ _functions' = list
           /\ _registered_function_count' = count
           /\ IF RegisterGate(dev, count)
              THEN /\ config_functions' =
                          config_functions \o bind_functions(dev, list, start_disabled)
                   /\ bind_passes' = bind_passes + 1
                   /\ bind_trigger' = "register"
              ELSE UNCHANGED <<config_functions, bind_passes, bind_trigger>>
           /\ call' = [NoCall EXCEPT !.op = "android_register_function",
                                     !.name = name]
    /\ UNCHANGED <<dev, device_desc, cdev_desc, CONFIG_USB_ANDROID_RNDIS,
                   CONFIG_USB_ANDROID_RNDIS_WCEIS, start_disabled, bind_pc,
                   count_at_attach>>
    /\ UNCHANGED <<first_id, threads>>

(***************************************************************************)
(* android_bind: usb_add_config calls android_bind_config, then the        *)
(* framework handle is stored and the product id computed.                 *)
(***************************************************************************)
\* Effect of android_bind_config on dev, the configuration and the pass count.
android_bind_config(d, fs, passes, trigger) ==
    LET d1 == [d EXCEPT !.config = "config"]
    IN  IF AttachGate(d1, _registered_function_count)
        THEN [dev |-> d1,
              config_functions |-> fs \o bind_functions(d1, _functions, start_disabled),
              bind_passes |-> passes + 1,
              bind_trigger |-> "attach",
              ret |-> 0]
        ELSE [dev |-> d1, config_functions |-> fs,
              bind_passes |-> passes, bind_trigger |-> trigger, ret |-> 0]

\* Lines after usb_add_config: the handle, the product id, the descriptor copy.
android_bind_finish(d, fs, desc) ==
    LET d1 == [d EXCEPT !.cdev = "cdev"]
        product_id == get_product_id(d1, fs)
        desc1 == [desc EXCEPT !.idProduct = cpu_to_le16(product_id)]
    IN  [dev |-> d1, device_desc |-> desc1,
         cdev_desc |-> [idProduct |-> desc1.idProduct,
                        bDeviceClass |-> desc1.bDeviceClass],
         product_id |-> product_id]

android_bind ==
    /\ bind_pc = "idle"
    /\ LET a == android_bind_config(dev, config_functions, bind_passes, bind_trigger)
           b == android_bind_finish(a.dev, a.config_functions, device_desc)
       IN  /\ config_functions' = a.config_functions
           /\ bind_passes' = a.bind_passes
           /\ bind_trigger' = a.bind_trigger
           /\ IF a.ret # 0
              THEN \* usb_add_config failed: return ret
                   /\ dev' = a.dev
                   /\ UNCHANGED <<device_desc, cdev_desc>>
                   /\ call' = [NoCall EXCEPT !.op = "android_bind", !.ret = a.ret]
              ELSE /\ dev' = b.dev
                   /\ device_desc' = b.device_desc
                   /\ cdev_desc' = b.cdev_desc
                   /\ call' = [NoCall EXCEPT !.op = "android_bind",
                                             !.product_id = b.product_id,
                                             !.ret = 0]
    /\ count_at_attach' = _registered_function_count
    /\ bind_pc' = "done"
    /\ UNCHANGED <<_functions, _registered_function_count, CONFIG_USB_ANDROID_RNDIS,
                   CONFIG_USB_ANDROID_RNDIS_WCEIS, start_disabled>>
    /\ first_id' = LET a == android_bind_config(dev, config_functions, bind_passes,
                                                 bind_trigger)
                   IN  [set |-> TRUE,
                        enabled |-> EnabledNames(a.config_functions),
                        id |-> get_product_id(a.dev, a.config_functions)]
    /\ UNCHANGED threads

(***************************************************************************)
(* android_enable_function                                                 *)
(***************************************************************************)
Event(ev, name, val) == [ev |-> ev, name |-> name, val |-> val]

\* A guard that treats every call as a change.
EnableEdgeAlways(f, enable) == TRUE

\* if (!!f->disabled != disable), with disable = !enable
EnableEdge(f, enable) == NotNot(f.disabled) # Not(enable)

\* usb_function_set_enabled(f, enabled): f->disabled = !enabled
usb_function_set_enabled(fs, i, enabled) == [fs EXCEPT ![i].disabled = Not(enabled)]

RndisConflicts == {"usb_mass_storage", "mtp", "adb"}

\* The value the rndis branch stores in dev->cdev->desc.bDeviceClass.
RndisDeviceClass(enable, wceis) ==
    IF enable # 0
    THEN IF wceis THEN USB_CLASS_WIRELESS_CONTROLLER ELSE USB_CLASS_COMM
    ELSE USB_CLASS_PER_INTERFACE

\* The loop of the rndis branch: usb_function_set_enabled(func, !enable).
RndisSetOthers(fs, enable) ==
    [k \in 1..Len(fs) |->
        IF fs[k].name \in RndisConflicts
        THEN [fs[k] EXCEPT !.disabled = Not(Not(enable))]
        ELSE fs[k]]

RndisEvents(fs, enable) ==
    LET hit == SelectSeq(fs, LAMBDA func : func.name \in RndisConflicts)
    IN  [k \in 1..Len(hit) |->
            Event("usb_function_set_enabled", hit[k].name, Not(enable))]

\* The closing statements with the forced reset issued before the writes.
IdentityEventsResetFirst(product_id, cdev) ==
    <<Event("usb_composite_force_reset", cdev, 0),
      Event("device_desc.idProduct", "device_desc", cpu_to_le16(product_id))>>
    \o (IF cdev # NULL
        THEN <<Event("cdev.desc.idProduct", cdev, cpu_to_le16(product_id))>>
        ELSE <<>>)

\* The closing statements: the descriptor writes, then the forced reset.
IdentityEvents(product_id, cdev) ==
    <<Event("device_desc.idProduct", "device_desc", cpu_to_le16(product_id))>>
    \o (IF cdev # NULL
        THEN <<Event("cdev.desc.idProduct", cdev, cpu_to_le16(product_id))>>
        ELSE <<>>)
    \o <<Event("usb_composite_force_reset", cdev, 0)>>

\* What a store through the NULL dev->cdev can do: the kernel oopses and the
\* caller is killed, or the store lands in a mapped low page and is lost.
NullStoreOutcomes == {"oops", "lost"}

Snapshot == [set |-> TRUE, idProduct |-> device_desc.idProduct,
             cdev_idProduct |-> cdev_desc.idProduct,
             bDeviceClass |-> cdev_desc.bDeviceClass]

\* The state and the events an edge of android_enable_function produces.
EnableResult(i, enable, outcome) ==
    LET f == config_functions[i]
        fs1 == usb_function_set_enabled(config_functions, i, Not(Not(enable)))
        ev1 == <<Event("usb_function_set_enabled", f.name, NotNot(enable))>>
        rndis == CONFIG_USB_ANDROID_RNDIS /\ f.name = "rndis"
    IN  IF rndis /\ dev.cdev = NULL /\ outcome = "oops"
        THEN [config_functions |-> fs1, device_desc |-> device_desc,
              cdev_desc |-> cdev_desc, product_id |-> 0, fault |-> TRUE,
              events |-> ev1 \o <<Event("null_store", "bDeviceClass", 0)>>]
        ELSE
        LET class == RndisDeviceClass(enable, CONFIG_USB_ANDROID_RNDIS_WCEIS)
            cd1 == IF rndis /\ dev.cdev # NULL
                   THEN [cdev_desc EXCEPT !.bDeviceClass = class]
                   ELSE cdev_desc
            ev2 == IF ~rndis THEN <<>>
                   ELSE <<Event(IF dev.cdev # NULL THEN "cdev.desc.bDeviceClass"
                                ELSE "null_store", "bDeviceClass", class)>>
                        \o RndisEvents(fs1, enable)
            fs2 == IF rndis THEN RndisSetOthers(fs1, enable) ELSE fs1
            product_id == get_product_id(dev, fs2)
            dd1 == [device_desc EXCEPT !.idProduct = cpu_to_le16(product_id)]
            cd2 == IF dev.cdev # NULL
                   THEN [cd1 EXCEPT !.idProduct = dd1.idProduct]
                   ELSE cd1
        IN  [config_functions |-> fs2, device_desc |-> dd1, cdev_desc |-> cd2,
             product_id |-> product_id, fault |-> FALSE,
             events |-> ev1 \o ev2 \o IdentityEvents(product_id, dev.cdev)]

android_enable_function(i, enable) ==
    /\ i \in 1..Len(config_functions)
    /\ LET f == config_functions[i]
           c0 == [NoCall EXCEPT !.op = "android_enable_function", !.f = i,
                                !.name = f.name, !.enable = enable]
       IN  IF ~EnableEdge(f, enable)
           THEN /\ call' = c0
                /\ UNCHANGED <<config_functions, device_desc, cdev_desc>>
           ELSE \E outcome \in
                    IF CONFIG_USB_ANDROID_RNDIS /\ f.name = "rndis" /\ dev.cdev = NULL
                    THEN NullStoreOutcomes ELSE {"none"} :
                  LET r == EnableResult(i, enable, outcome)
                      pair == /\ call.op = "android_enable_function"
                              /\ call.edge /\ ~call.fault
                              /\ call.f = i /\ call.enable = 0 /\ enable # 0
                              /\ ~r.fault
                  IN  /\ config_functions' = r.config_functions
                      /\ device_desc' = r.device_desc
                      /\ cdev_desc' = r.cdev_desc
                      /\ call' = [c0 EXCEPT !.edge = TRUE, !.events = r.events,
                                            !.product_id = r.product_id,
                                            !.fault = r.fault,
                                            !.pre = IF enable = 0 THEN Snapshot
                                                    ELSE NoSnapshot,
                                            !.toggle = IF pair THEN call.pre
                                                       ELSE NoSnapshot]
    /\ UNCHANGED <<dev, _functions, _registered_function_count,
                   CONFIG_USB_ANDROID_RNDIS, CONFIG_USB_ANDROID_RNDIS_WCEIS,
                   start_disabled, bind_pc, bind_passes, bind_trigger,
                   count_at_attach>>
    /\ UNCHANGED <<first_id, threads>>

EnableArgs == {0, 1}

Next ==
    \/ \E name \in ModuleNames : android_register_function(name)
    \/ android_bind
    \/ \E i \in 1..Len(config_functions), enable \in EnableArgs :
           android_enable_function(i, enable)

(***************************************************************************)
(* android_setup_config                                                    *)
(***************************************************************************)
\* c->interface[i]->setup: absent, or the value it returns for the request.
NoSetup == [setup |-> FALSE, ret |-> 0]
SetupHandlers ==
    {NoSetup} \cup { [setup |-> TRUE, ret |-> r] : r \in {-EOPNOTSUPP, -22, 0, 7} }

\* Each bound function claimed one interface of the configuration.
next_interface_id == Len(config_functions)

\* The loop from interface i (0-based) on; consulted lists the wIndex of
\* every handler called.
RECURSIVE android_setup_config_from(_, _, _, _)
android_setup_config_from(interface, i, ret, consulted) ==
    IF ~(i < Len(interface)) THEN [ret |-> ret, consulted |-> consulted]
    ELSE IF interface[i + 1].setup
         THEN LET r == interface[i + 1].ret
              IN  IF r >= 0
                  THEN [ret |-> r, consulted |-> Append(consulted, i)]
                  ELSE android_setup_config_from(interface, i + 1, r,
                                                 Append(consulted, i))
         ELSE android_setup_config_from(interface, i + 1, ret, consulted)

\* The loop without its early return.
RECURSIVE android_setup_config_no_return_from(_, _, _, _)
android_setup_config_no_return_from(interface, i, ret, consulted) ==
    IF ~(i < Len(interface)) THEN [ret |-> ret, consulted |-> consulted]
    ELSE IF interface[i + 1].setup
         THEN android_setup_config_no_return_from(interface, i + 1,
                  interface[i + 1].ret, Append(consulted, i))
         ELSE android_setup_config_no_return_from(interface, i + 1, ret, consulted)

android_setup_config_no_return(interface) ==
    android_setup_config_no_return_from(interface, 0, -EOPNOTSUPP, <<>>)

android_setup_config_result(interface) ==
    android_setup_config_from(interface, 0, -EOPNOTSUPP, <<>>)

android_setup_config(interface) ==
    /\ dev.config # NULL
    /\ LET r == android_setup_config_result(interface)
       IN  call' = [NoCall EXCEPT !.op = "android_setup_config",
                                  !.handlers = interface,
                                  !.consulted = r.consulted, !.ret = r.ret]
    /\ UNCHANGED <<dev, device_desc, cdev_desc, _functions,
                   _registered_function_count, config_functions,
                   CONFIG_USB_ANDROID_RNDIS, CONFIG_USB_ANDROID_RNDIS_WCEIS,
                   start_disabled, bind_pc, bind_passes, bind_trigger,
                   count_at_attach>>
    /\ UNCHANGED <<first_id, threads>>

\* Control requests reaching the configuration while modules register.
NextSetup ==
    \/ \E name \in ModuleNames : android_register_function(name)
    \/ android_bind
    \/ \E interface \in [1..next_interface_id -> SetupHandlers] :
           android_setup_config(interface)

\* Dispatch reads neither the build options nor the enabled flags.
InitSetup == Init /\ ~CONFIG_USB_ANDROID_RNDIS /\ start_disabled = {}

SpecSetup == InitSetup /\ [][NextSetup]_vars

Spec == Init /\ [][Next]_vars

(***************************************************************************)
(* android_bind taken in two steps: usb_add_config has returned, and the   *)
(* stores that follow it.  Other callers run in between.                   *)
(***************************************************************************)
android_bind_add_config ==
    /\ bind_pc = "idle"
    /\ LET a == android_bind_config(dev, config_functions, bind_passes, bind_trigger)
       IN  /\ dev' = a.dev
           /\ config_functions' = a.config_functions
           /\ bind_passes' = a.bind_passes
           /\ bind_trigger' = a.bind_trigger
    /\ count_at_attach' = _registered_function_count
    /\ bind_pc' = "added"
    /\ call' = [NoCall EXCEPT !.op = "android_bind_config"]
    /\ UNCHANGED <<device_desc, cdev_desc, _functions, _registered_function_count,
                   CONFIG_USB_ANDROID_RNDIS, CONFIG_USB_ANDROID_RNDIS_WCEIS,
                   start_disabled>>
    /\ UNCHANGED <<first_id, threads>>

android_bind_store ==
    /\ bind_pc = "added"
    /\ LET b == android_bind_finish(dev, config_functions, device_desc)
       IN  /\ dev' = b.dev
           /\ device_desc' = b.device_desc
           /\ cdev_desc' = b.cdev_desc
           /\ call' = [NoCall EXCEPT !.op = "android_bind",
                                     !.product_id = b.product_id]
    /\ bind_pc' = "done"
    /\ UNCHANGED <<_functions, _registered_function_count, config_functions,
                   CONFIG_USB_ANDROID_RNDIS, CONFIG_USB_ANDROID_RNDIS_WCEIS,
                   start_disabled, bind_passes, bind_trigger, count_at_attach>>
    /\ first_id' = [set |-> TRUE, enabled |-> EnabledNames(config_functions),
                    id |-> get_product_id(dev, config_functions)]
    /\ UNCHANGED threads

NextInterleaved ==
    \/ \E name \in ModuleNames : android_register_function(name)
    \/ android_bind_add_config
    \/ android_bind_store
    \/ \E i \in 1..Len(config_functions), enable \in EnableArgs :
           android_enable_function(i, enable)

SpecInterleaved == Init /\ [][NextInterleaved]_vars

(***************************************************************************)
(* Concurrent callers, one statement at a time.  Each expected module      *)
(* calls android_register_function once, from its own thread, while the    *)
(* framework runs android_bind.                                            *)
(***************************************************************************)
RegUnchanged ==
    UNCHANGED <<device_desc, cdev_desc, CONFIG_USB_ANDROID_RNDIS,
                CONFIG_USB_ANDROID_RNDIS_WCEIS, start_disabled, bind_pc,
                count_at_attach, first_id, en_threads, dev>>

\* list_add_tail(&f->list, &_functions)
android_register_function_list_add(t) ==
    /\ reg_threads[t].pc = "idle"
    /\ _functions' = Append(_functions, dev.functions[t])
    /\ reg_threads' = [reg_threads EXCEPT ![t].pc = "read"]
    /\ call' = [NoCall EXCEPT !.op = "android_register_function",
                              !.name = dev.functions[t]]
    /\ UNCHANGED <<_registered_function_count, config_functions, bind_passes,
                   bind_trigger>>
    /\ RegUnchanged

\* _registered_function_count++ : the load
android_register_function_load(t) ==
    /\ reg_threads[t].pc = "read"
    /\ reg_threads' = [reg_threads EXCEPT ![t].pc = "write",
                                          ![t].tmp = _registered_function_count]
    /\ UNCHANGED <<_functions, _registered_function_count, config_functions,
                   bind_passes, bind_trigger, call>>
    /\ RegUnchanged

\* _registered_function_count++ : the store
android_register_function_store(t) ==
    /\ reg_threads[t].pc = "write"
    /\ _registered_function_count' = reg_threads[t].tmp + 1
    /\ reg_threads' = [reg_threads EXCEPT ![t].pc = "test_config"]
    /\ UNCHANGED <<_functions, config_functions, bind_passes, bind_trigger, call>>
    /\ RegUnchanged

\* dev && dev->config && ...
android_register_function_test_config(t) ==
    /\ reg_threads[t].pc = "test_config"
    /\ reg_threads' = [reg_threads EXCEPT
                          ![t].pc = IF dev.config # NULL THEN "test_count" ELSE "done"]
    /\ UNCHANGED <<_functions, _registered_function_count, config_functions,
                   bind_passes, bind_trigger, call>>
    /\ RegUnchanged

\* ... && _registered_function_count == dev->num_functions, then bind_functions
android_register_function_test_count(t) ==
    /\ reg_threads[t].pc = "test_count"
    /\ IF RegisterGate(dev, _registered_function_count)
       THEN /\ config_functions' =
                   config_functions \o bind_functions(dev, _functions, start_disabled)
            /\ bind_passes' = bind_passes + 1
            /\ bind_trigger' = "register"
       ELSE UNCHANGED <<config_functions, bind_passes, bind_trigger>>
    /\ reg_threads' = [reg_threads EXCEPT ![t].pc = "done"]
    /\ UNCHANGED <<_functions, _registered_function_count, call>>
    /\ RegUnchanged

\* android_bind_config: dev->config = c
android_bind_config_store ==
    /\ bind_pc = "idle"
    /\ dev' = [dev EXCEPT !.config = "config"]
    /\ bind_pc' = "config_set"
    /\ call' = [NoCall EXCEPT !.op = "android_bind_config"]
    /\ UNCHANGED <<device_desc, cdev_desc, _functions, _registered_function_count,
                   config_functions, CONFIG_USB_ANDROID_RNDIS,
                   CONFIG_USB_ANDROID_RNDIS_WCEIS, start_disabled, bind_passes,
                   bind_trigger, count_at_attach, first_id, threads>>

\* android_bind_config: the test of the count, then bind_functions
android_bind_config_test ==
    /\ bind_pc = "config_set"
    /\ LET a == android_bind_config(dev, config_functions, bind_passes, bind_trigger)
       IN  /\ config_functions' = a.config_functions
           /\ bind_passes' = a.bind_passes
           /\ bind_trigger' = a.bind_trigger
    /\ count_at_attach' = _registered_function_count
    /\ bind_pc' = "added"
    /\ UNCHANGED <<dev, device_desc, cdev_desc, _functions,
                   _registered_function_count, CONFIG_USB_ANDROID_RNDIS,
                   CONFIG_USB_ANDROID_RNDIS_WCEIS, start_disabled, call,
                   first_id, threads>>

NextRegisterRace ==
    \/ \E t \in 1..dev.num_functions :
           \/ android_register_function_list_add(t)
           \/ android_register_function_load(t)
           \/ android_register_function_store(t)
           \/ android_register_function_test_config(t)
           \/ android_register_function_test_count(t)
    \/ android_bind_config_store
    \/ android_bind_config_test
    \/ android_bind_store

\* The gate reads neither the build options nor the enabled flags.
InitRegisterRace == Init /\ ~CONFIG_USB_ANDROID_RNDIS /\ start_disabled = {}

SpecRegisterRace == InitRegisterRace /\ [][NextRegisterRace]_vars

(***************************************************************************)
(* Two concurrent callers of android_enable_function, one statement at a   *)
(* time, on a device whose modules registered in platform order.           *)
(***************************************************************************)
EnUnchanged ==
    UNCHANGED <<dev, _functions, _registered_function_count,
                CONFIG_USB_ANDROID_RNDIS, CONFIG_USB_ANDROID_RNDIS_WCEIS,
                start_disabled, bind_pc, bind_passes, bind_trigger,
                count_at_attach, call, first_id, reg_threads>>

\* The edge test and usb_function_set_enabled(f, !disable).
android_enable_function_begin(t, i, enable) ==
    /\ en_threads[t].pc = "idle"
    /\ bind_pc = "done"
    /\ i \in 1..Len(config_functions)
    /\ LET f == config_functions[i]
           edge == EnableEdge(f, enable)
           rndis == CONFIG_USB_ANDROID_RNDIS /\ f.name = "rndis"
       IN  /\ en_threads' = [en_threads EXCEPT ![t] =
                  [pc |-> IF ~edge THEN "done"
                          ELSE IF rndis THEN "rndis" ELSE "get_product_id",
                   f |-> i, enable |-> enable, edge |-> edge, product_id |-> 0]]
           /\ config_functions' =
                  IF edge
                  THEN usb_function_set_enabled(config_functions, i, Not(Not(enable)))
                  ELSE config_functions
    /\ UNCHANGED <<device_desc, cdev_desc>>
    /\ EnUnchanged

\* The rndis branch: bDeviceClass and the loop over the other functions.
android_enable_function_rndis(t) ==
    /\ en_threads[t].pc = "rndis"
    /\ dev.cdev # NULL
    /\ cdev_desc' = [cdev_desc EXCEPT !.bDeviceClass =
                        RndisDeviceClass(en_threads[t].enable,
                                         CONFIG_USB_ANDROID_RNDIS_WCEIS)]
    /\ config_functions' = RndisSetOthers(config_functions, en_threads[t].enable)
    /\ en_threads' = [en_threads EXCEPT ![t].pc = "get_product_id"]
    /\ UNCHANGED device_desc
    /\ EnUnchanged

\* product_id = get_product_id(dev)
android_enable_function_get_product_id(t) ==
    /\ en_threads[t].pc = "get_product_id"
    /\ en_threads' = [en_threads EXCEPT
                         ![t].pc = "write",
                         ![t].product_id = get_product_id(dev, config_functions)]
    /\ UNCHANGED <<config_functions, device_desc, cdev_desc>>
    /\ EnUnchanged

\* The descriptor stores and usb_composite_force_reset.
android_enable_function_write(t) ==
    /\ en_threads[t].pc = "write"
    /\ device_desc' = [device_desc EXCEPT
                          !.idProduct = cpu_to_le16(en_threads[t].product_id)]
    /\ cdev_desc' = IF dev.cdev # NULL
                    THEN [cdev_desc EXCEPT
                             !.idProduct = cpu_to_le16(en_threads[t].product_id)]
                    ELSE cdev_desc
    /\ en_threads' = [en_threads EXCEPT ![t].pc = "done"]
    /\ UNCHANGED config_functions
    /\ EnUnchanged

NextEnableRace ==
    \/ /\ Len(_functions) < dev.num_functions
       /\ android_register_function(dev.functions[Len(_functions) + 1])
    \/ android_bind
    \/ \E t \in 1..2, i \in 1..Len(config_functions), enable \in EnableArgs :
           android_enable_function_begin(t, i, enable)
    \/ \E t \in 1..2 : android_enable_function_rndis(t)
    \/ \E t \in 1..2 : android_enable_function_get_product_id(t)
    \/ \E t \in 1..2 : android_enable_function_write(t)

SpecEnableRace == Init /\ [][NextEnableRace]_vars

(***************************************************************************)
(* Properties                                                              *)
(***************************************************************************)
Names(fs) == [k \in 1..Len(fs) |-> fs[k].name]

\* The first num_functions registrations: the registry when the pass runs.
RegisteredAtBind == SubSeq(_functions, 1, dev.num_functions)

\* C1: over every sequence of registrations and one attach event, whatever
\* the number of registrations, bind_functions is executed at most once.
C1_BindAtMostOnce == bind_passes <= 1

C1_Witness ==
    /\ bind_passes = 1
    /\ bind_pc = "done"
    /\ Len(_functions) > dev.num_functions

\* The attach event happened with at most the expected count registered, and
\* the first num_functions registrations are the expected modules, once each.
ExpectedAllRegisteredOnce ==
    /\ bind_pc = "done"
    /\ count_at_attach <= dev.num_functions
    /\ Len(_functions) >= dev.num_functions
    /\ Range(RegisteredAtBind) = Range(dev.functions)

\* C2: once the attach event and one registration of each expected module
\* have all returned, binding has happened exactly once, by the trigger that
\* came last, and later registrations add no binding pass.
C2_BoundExactlyOnce ==
    ExpectedAllRegisteredOnce =>
        /\ bind_passes = 1
        /\ bind_trigger = IF count_at_attach = dev.num_functions
                          THEN "attach" ELSE "register"

C2_Witness ==
    /\ ExpectedAllRegisteredOnce
    /\ Len(_functions) > dev.num_functions
    /\ bind_trigger = "attach"

ProfileMatches(p, fs) ==
    \A k \in 1..Len(fs) : (fs[k].name \in Range(p.functions)) <=> (fs[k].disabled = 0)

FirstMatch(d, fs) ==
    LET M == { i \in 1..Len(d.products) : ProfileMatches(d.products[i], fs) }
    IN  IF M = {} THEN d.product_id
        ELSE d.products[CHOOSE i \in M : \A j \in M : i <= j].product_id

\* C5: get_product_id is the id of the first profile whose list is exactly the
\* enabled functions, else the fallback; with the catalog [{0x1111: A},
\* {0x2222: B}] and fallback 1, {A} gives 0x1111, {B} 0x2222, {} and {A,B} 1.
C5_FirstMatchingProfile ==
    /\ get_product_id(dev, config_functions) = FirstMatch(dev, config_functions)
    /\ (call.op \in {"android_bind", "android_enable_function"}
            /\ (call.op = "android_enable_function" => call.edge /\ ~call.fault))
        => call.product_id = FirstMatch(dev, config_functions)
    /\ (dev.products = ExampleProducts
            /\ Names(config_functions) = <<"usb_mass_storage", "adb">>)
        => get_product_id(dev, config_functions) =
               CASE EnabledNames(config_functions) = {"usb_mass_storage"} -> 4369
                 [] EnabledNames(config_functions) = {"adb"} -> 8738
                 [] EnabledNames(config_functions) = {} -> 1
                 [] EnabledNames(config_functions) = {"usb_mass_storage", "adb"} -> 1

C5_Witness ==
    /\ dev.products = ExampleProducts
    /\ Names(config_functions) = <<"usb_mass_storage", "adb">>
    /\ EnabledNames(config_functions) = {"adb"}
    /\ call.op = "android_enable_function" /\ call.edge
    /\ call.product_id = 8738

EventsNamed(ev, what) == { k \in 1..Len(ev) : ev[k].ev = what }

\* C6: android_enable_function(f, enable) with enable equal to f's current
\* enabled state changes no enabled flag, neither idProduct nor bDeviceClass,
\* and issues no forced reset.
C6_SameStateIsNoOp ==
    [][ (/\ call'.op = "android_enable_function"
         /\ call'.f \in 1..Len(config_functions)
         /\ (config_functions[call'.f].disabled = 0) <=> (call'.enable # 0))
        => /\ config_functions' = config_functions
           /\ device_desc' = device_desc
           /\ cdev_desc' = cdev_desc
           /\ EventsNamed(call'.events, "usb_composite_force_reset") = {} ]_vars

C6_Witness ==
    /\ call.op = "android_enable_function"
    /\ ~call.edge
    /\ call.enable = 1
    /\ config_functions[call.f].disabled = 0

\* C7: from a state where f is enabled, android_enable_function(f, 0) and then
\* android_enable_function(f, 1) restore the product id and the device class.
C7_ToggleRestores ==
    (call.op = "android_enable_function" /\ call.toggle.set) =>
        /\ device_desc.idProduct = call.toggle.idProduct
        /\ cdev_desc.idProduct = call.toggle.cdev_idProduct
        /\ cdev_desc.bDeviceClass = call.toggle.bDeviceClass

\* C8: a call that changes a function's state on a bound device writes
\* get_product_id of the new enabled set into the descriptor and then issues
\* exactly one forced reset, never before the write.
C8_WriteThenOneReset ==
    (/\ call.op = "android_enable_function" /\ call.edge /\ ~call.fault
     /\ dev.cdev # NULL)
    => LET ev == call.events
           id == cpu_to_le16(FirstMatch(dev, config_functions))
           resets == EventsNamed(ev, "usb_composite_force_reset")
           writes == EventsNamed(ev, "device_desc.idProduct")
                     \cup EventsNamed(ev, "cdev.desc.idProduct")
       IN  /\ resets = {Len(ev)}
           /\ ev[Len(ev)].name = dev.cdev
           /\ Cardinality(writes) = 2
           /\ \A k \in writes : k < Len(ev) /\ ev[k].val = id
           /\ device_desc.idProduct = id
           /\ cdev_desc.idProduct = id

C8_Witness ==
    /\ call.op = "android_enable_function" /\ call.edge
    /\ dev.cdev # NULL
    /\ call.name = "rndis" /\ CONFIG_USB_ANDROID_RNDIS
    /\ call.enable = 1
    /\ \E k \in 1..Len(config_functions) :
           config_functions[k].name = "adb" /\ config_functions[k].disabled = 1
    /\ device_desc.idProduct = 3075

\* C9: a call that changes a function's state while dev->cdev is unset still
\* writes the product id to device_desc, requests no forced reset and makes
\* no access through the absent handle.
C9_NoHandleNoReset ==
    (call.op = "android_enable_function" /\ call.edge /\ dev.cdev = NULL)
    => /\ ~call.fault
       /\ device_desc.idProduct =
              cpu_to_le16(get_product_id(dev, config_functions))
       /\ EventsNamed(call.events, "usb_composite_force_reset") = {}
       /\ EventsNamed(call.events, "null_store") = {}

\* C10: android_setup_config returns the result of the lowest interface whose
\* handler returns a non-negative value; else the result of the highest
\* interface that has a handler; else -EOPNOTSUPP.
C10_SetupResult ==
    call.op = "android_setup_config" =>
        LET h == call.handlers
            accepting == { i \in 1..Len(h) : h[i].setup /\ h[i].ret >= 0 }
            handling == { i \in 1..Len(h) : h[i].setup }
        IN  call.ret =
                IF accepting # {}
                THEN h[CHOOSE i \in accepting : \A j \in accepting : i <= j].ret
                ELSE IF handling # {}
                THEN h[CHOOSE i \in handling : \A j \in handling : j <= i].ret
                ELSE -EOPNOTSUPP

C10_Witness ==
    /\ call.op = "android_setup_config"
    /\ Len(call.handlers) = 3
    /\ call.handlers[1] = [setup |-> TRUE, ret |-> -EOPNOTSUPP]
    /\ call.handlers[2] = [setup |-> TRUE, ret |-> -22]
    /\ call.handlers[3] = NoSetup
    /\ call.ret = -22

\* C11: handlers are consulted in strictly increasing interface order, each
\* interface that has one up to the first that accepts, and none after it.
C11_InOrderShortCircuit ==
    call.op = "android_setup_config" =>
        LET h == call.handlers
            c == call.consulted
            accepting == { i \in 1..Len(h) : h[i].setup /\ h[i].ret >= 0 }
            last == IF accepting = {} THEN Len(h)
                    ELSE CHOOSE i \in accepting : \A j \in accepting : i <= j
        IN  /\ \A k \in 1..Len(c) - 1 : c[k] < c[k + 1]
            /\ Range(c) = { i - 1 : i \in { j \in 1..last : h[j].setup } }

C11_Witness ==
    /\ call.op = "android_setup_config"
    /\ Len(call.handlers) = 3
    /\ call.handlers[1] = [setup |-> TRUE, ret |-> -22]
    /\ call.handlers[2] = [setup |-> TRUE, ret |-> 0]
    /\ call.handlers[3] = [setup |-> TRUE, ret |-> 7]
    /\ call.consulted = <<0, 1>>

\* C12: a registration under a name already in the registry is rejected, so
\* the names in the registry stay unique and the count equals their number.
C12_NamesStayUnique ==
    /\ \A i, j \in 1..Len(_functions) : _functions[i] = _functions[j] => i = j
    /\ _registered_function_count = Cardinality(Range(_functions))

\* C14: bind_functions runs, and bind callbacks are invoked, only in a step
\* at whose gate dev->config is set and the count equals num_functions.
C14_BindOnlyWhenGateHolds ==
    [][ (bind_passes' # bind_passes
            \/ Len(config_functions') # Len(config_functions))
        => /\ dev'.config # NULL
           /\ _registered_function_count' = dev.num_functions ]_vars

C14_Witness ==
    /\ bind_passes = 1
    /\ bind_trigger = "register"
    /\ call.op = "android_register_function"
    /\ Len(config_functions) > 0

\* C19: once the attach event has occurred and every module of the expected
\* list has registered, the expected functions are bound, also when more
\* modules than the expected count have registered.
C19_BoundWhenAllExpectedRegistered ==
    (bind_pc = "done" /\ Range(dev.functions) \subseteq Range(_functions))
    => /\ bind_passes >= 1
       /\ Range(dev.functions) \subseteq Range(Names(config_functions))

\* The rndis branch stores a class other than USB_CLASS_PER_INTERFACE exactly
\* when it enables rndis, and rndis has stayed enabled since that call.
RndisOnByCall ==
    /\ CONFIG_USB_ANDROID_RNDIS
    /\ dev.cdev # NULL
    /\ cdev_desc.bDeviceClass # USB_CLASS_PER_INTERFACE

\* C20: while rndis stays enabled after being enabled by android_enable_function,
\* usb_mass_storage, mtp and adb are all disabled.
C20_RndisExcludesOthers ==
    RndisOnByCall =>
        \A k \in 1..Len(config_functions) :
            config_functions[k].name \in RndisConflicts
                => config_functions[k].disabled = 1

\* Some expected name had no module in the registry when the pass ran.
ExpectedNameMissing ==
    \E n \in Range(dev.functions) : n \notin Range(RegisteredAtBind)

PositionIn(seq, x) == CHOOSE i \in 1..Len(seq) : seq[i] = x

\* C18: an expected name without a module is skipped: every other expected
\* name that is registered gets its bind callback, in list order, and the
\* attach event still succeeds.
C18_MissingNameSkipped ==
    (bind_passes = 1 /\ ExpectedNameMissing) =>
        LET bound == Names(config_functions)
        IN  /\ \A n \in Range(dev.functions) \cap Range(RegisteredAtBind) :
                   Cardinality({ k \in 1..Len(bound) : bound[k] = n }) = 1
            /\ Range(bound) \subseteq Range(dev.functions) \cap Range(RegisteredAtBind)
            /\ \A k, l \in 1..Len(bound) :
                   k < l => PositionIn(dev.functions, bound[k])
                                < PositionIn(dev.functions, bound[l])
            /\ (call.op = "android_bind" /\ bind_trigger = "attach")
                   => call.ret = 0 /\ dev.cdev # NULL

C18_Witness ==
    /\ bind_passes = 1
    /\ bind_trigger = "attach"
    /\ call.op = "android_bind"
    /\ "rndis" \in Range(dev.functions)
    /\ "rndis" \notin Range(RegisteredAtBind)
    /\ Names(config_functions) = <<"usb_mass_storage", "adb">>

\* C13: get_product_id returns the same id for the same enabled set, whatever
\* happened between the calls: a call that finds the enabled names of the
\* first call returns the id the first call returned.
C13_SameEnabledSetSameId ==
    (/\ first_id.set
     /\ call.op = "android_enable_function" /\ call.edge /\ ~call.fault
     /\ EnabledNames(config_functions) = first_id.enabled)
    => call.product_id = first_id.id

\* Every expected module's call has returned and so has android_bind.
AllRegisteredAndAttached ==
    /\ bind_pc = "done"
    /\ \A t \in 1..dev.num_functions : reg_threads[t].pc = "done"

\* C15: with the registrations interleaved and the increment a load and a
\* store, once all expected modules have registered and the attach event has
\* occurred, some call has seen the count complete and the functions are bound.
C15_NoLostWakeup ==
    AllRegisteredAndAttached =>
        /\ bind_passes >= 1
        /\ Range(dev.functions) \subseteq Range(Names(config_functions))

\* C16: under every interleaving of the attach event with the registrations,
\* the binding pass is never executed twice.
C16_NeverBoundTwice == bind_passes <= 1

\* C17: once two concurrent calls that change different functions have both
\* returned, idProduct is get_product_id of the final enabled set.
C17_FinalIdAfterConcurrentCalls ==
    (/\ \A t \in 1..2 : en_threads[t].pc = "done" /\ en_threads[t].edge
     /\ en_threads[1].f # en_threads[2].f)
    => /\ device_desc.idProduct =
              cpu_to_le16(get_product_id(dev, config_functions))
       /\ cdev_desc.idProduct = device_desc.idProduct

====
